---- MODULE Spec2Model ----
(***************************************************************************)
(* State-machine model of the SWANSIM simulation core:                     *)
(*   backend/simulation/env.py        BlackSwanEnv (reset / step)          *)
(*   backend/simulation/simulator.py  Simulator (start/stop/_run_loop)     *)
(*   agents, markets, social graph, shock manager, inequality, rewards.    *)
(*                                                                         *)
(* Arithmetic.  The program computes in floating point; the model uses     *)
(* integers:                                                               *)
(*   money (capital, wealth, wage, revenue, gdp, consumption) in whole     *)
(*   units, rounded down;                                                  *)
(*   goods quantities, productivity, prices and every rate (inflation,     *)
(*   unemployment, unrest, gini, policy levers, severity) in 1/100         *)
(*   (Scale), so 70 is 0.7.                                                *)
(* Python's int() is Trunc (toward zero); other quotients round down.      *)
(* np.tanh is tabulated (TanhH).                                           *)
(***************************************************************************)
EXTENDS Integers, Sequences, FiniteSets, TLC

(***************************************************************************)
(* Bounds of the model (not program constants).                            *)
(***************************************************************************)
\* config["num_households"] and config["num_firms"], scaled down
NumHouseholds == 2
NumFirms == 1
\* config["max_steps"]: the truncation horizon of an episode
MaxSteps == 2
\* total number of env.step calls explored
MaxTicks == 2
\* shocks injected through add_shock by the controlling thread
MaxShocks == 1
\* loop threads ever created by Simulator.start
MaxThreads == 2
\* calls of ShockManager.maybe_trigger explored when the shock manager is
\* driven on its own (a shock lives for DefaultDuration calls)
MaxTriggers == 11

(***************************************************************************)
(* Program constants.                                                      *)
(***************************************************************************)
Scale == 100
\* config.get("base_wage", 50.0): configured here as 500 so that the
\* labour budget int(capital / wage) of a startup is of the order of the
\* (scaled-down) household count
BaseWage == 500
\* config.get("wage_adjustment", 0.1), config.get("price_adjustment", 0.1)
WageAdjustment == 10
PriceAdjustment == 10
\* config.get("max_leverage", 3.0)
MaxLeverage == 300
\* SocialGraph: influence_strength 0.3, unrest_decay 0.05
InfluenceStrength == 30
UnrestDecay == 5
\* FirmAgent.step: max(demand, 100.0)
MinDemand == 100
\* FirmAgent.__init__: price = 10.0
InitialPrice == 1000
\* BlackSwanEnv.reset: gdp = gdp_last = prev_gdp = 10000.0
KickstartGdp == 10000
\* _check_collapse thresholds 0.7 and 0.15
UnrestCollapse == 70
UnemploymentCollapse == 15
\* add_shock durations
DefaultDuration == 10
PermanentDuration == 1000

Households == 1..NumHouseholds
Firms == 1..NumFirms
Threads == 1..MaxThreads
\* caller 0 is a direct user of the BlackSwanEnv API; callers 1.. are the
\* Simulator's _run_loop threads
ApiCaller == 0
Callers == {ApiCaller} \cup Threads

(***************************************************************************)
(* Input sets: the values random draws and caller inputs are taken from.   *)
(***************************************************************************)
\* social classes and archetypes np.random.choice draws from (env.py 43-58)
SocialClasses == {"poor", "elite"}
Archetypes == {"startup", "sme"}
\* np.random.normal(0, social_noise): a negative draw and a far tail draw
SocialNoiseDraws == {-2, 80}
\* 0.01 * np.random.randn()
InflationDraws == {-1, 1}
\* government actions [interest_rate, tax_rate, welfare, capital_controls]
Actions == {<<5, 20, 0, 0>>, <<100, 60, 50, 100>>}
ShockTypes == {"pandemic", "financial_crash", "political_coup",
               "supply_chain_collapse", "cyber_attack", "climate_catastrophe"}
Severities == {50}
\* config["shock_probs"] as the Simulator passes it (simulator.py 38-40)
RandomShockTypes == {"pandemic"}

(***************************************************************************)
(* Numeric helpers.                                                        *)
(***************************************************************************)
Min(a, b) == IF a <= b THEN a ELSE b
Max(a, b) == IF a >= b THEN a ELSE b
Abs(a) == IF a >= 0 THEN a ELSE -a

\* np.clip(x, lo, hi)
Clip(x, lo, hi) == Max(lo, Min(x, hi))

\* Python int(a / b): truncation toward zero, b # 0
Trunc(a, b) ==
    IF (a >= 0) = (b > 0) THEN Abs(a) \div Abs(b) ELSE -(Abs(a) \div Abs(b))

\* a * b / Scale, for the product of two scale-100 numbers (a split into
\* its whole and fractional part, which keeps the intermediate product small)
Mul(a, b) == (a \div Scale) * b + ((a % Scale) * b) \div Scale

\* np.tanh(num / den) in 1/100, den > 0, tabulated on quarter steps of the
\* argument: tanh(0.25)=0.24, tanh(0.5)=0.46, tanh(0.75)=0.64, tanh(1)=0.76,
\* tanh(1.5)=0.91, tanh(2)=0.96, tanh(x>=3)=1.00 (to two decimals)
TanhH(num, den) ==
    LET q == (Abs(num) * 4) \div den
        t == IF q = 0 THEN 0
             ELSE IF q = 1 THEN 24
             ELSE IF q = 2 THEN 46
             ELSE IF q = 3 THEN 64
             ELSE IF q < 6 THEN 76
             ELSE IF q < 8 THEN 91
             ELSE IF q < 12 THEN 96
             ELSE 100
    IN  IF num >= 0 THEN t ELSE -t

RECURSIVE MulDivQR(_, _, _)
\* <<quotient, remainder>> of a * b by c for a, b >= 0 and c > 0, by binary
\* long multiplication (the product itself may exceed the integer range).
\* h, the result for a \div 2, is bound as the element of a one-element set,
\* which evaluates it once
MulDivQR(a, b, c) ==
    IF a = 0 THEN <<0, 0>>
    ELSE CHOOSE qr \in
            {<<2 * h[1] + (a % 2) * (b \div c)
                  + (2 * h[2] + (a % 2) * (b % c)) \div c,
               (2 * h[2] + (a % 2) * (b % c)) % c>> :
                h \in {MulDivQR(a \div 2, b, c)}} : TRUE

\* a * b / c for c > 0, truncated toward zero (the operands are bound once,
\* as the elements of one-element sets)
MulDiv(a, b, c) ==
    CHOOSE r \in
        {IF (x >= 0) = (y >= 0) THEN MulDivQR(Abs(x), Abs(y), z)[1]
                                ELSE -MulDivQR(Abs(x), Abs(y), z)[1] :
            x \in {a}, y \in {b}, z \in {c}} : TRUE

RECURSIVE SumOver(_, _)
\* sum(f[i] for i in S)
SumOver(f, S) ==
    IF S = {} THEN 0
    ELSE LET i == CHOOSE j \in S : TRUE
         IN  f[i] + SumOver(f, S \ {i})

(***************************************************************************)
(* Inequality metrics (economics/inequality.py).                           *)
(***************************************************************************)
RECURSIVE SortAsc(_, _)
\* np.sort of the values f[i], i \in S, as a sequence
SortAsc(f, S) ==
    IF S = {} THEN << >>
    ELSE LET i == CHOOSE j \in S : \A k \in S : f[j] <= f[k]
         IN  <<f[i]>> \o SortAsc(f, S \ {i})

\* a faulty variant of calculate_gini: the quotient is returned without
\* np.clip
calculate_gini_unclipped(w, S) ==
    IF S = {} THEN 0
    ELSE IF \A i \in S : w[i] = 0 THEN 0
    ELSE LET incomes == SortAsc(w, S)
             n == Len(incomes)
             num == SumOver([k \in 1..n |-> (2 * k - n - 1) * incomes[k]], 1..n)
             total == SumOver(w, S)
         IN  IF total = 0 THEN Scale * num
             ELSE (Scale * num) \div (n * total)

\* InequalityMetrics.calculate_gini over the sequence-like function w on S
calculate_gini(w, S) ==
    IF S = {} THEN 0
    ELSE IF \A i \in S : w[i] = 0 THEN 0
    ELSE LET incomes == SortAsc(w, S)
             n == Len(incomes)
             num == SumOver([k \in 1..n |-> (2 * k - n - 1) * incomes[k]], 1..n)
             total == SumOver(w, S)
         IN  \* a zero total with num > 0 is +inf in numpy, which clips to 1
             IF total = 0 THEN Scale
             ELSE Clip((Scale * num) \div (n * total), 0, Scale)

\* a faulty variant of calculate_wealth_share: the share is returned
\* without np.clip
WealthShareUnclipped(w, S, top_percentile) ==
    IF S = {} THEN 0
    ELSE LET total == SumOver(w, S)
             n == Cardinality(S)
             k == Max(1, (n * top_percentile + 99) \div 100)
             sorted == SortAsc(w, S)
             top == SumOver([j \in 1..n |-> sorted[j]],
                            (n - Min(k, n) + 1)..n)
         IN  IF total <= 0 THEN 0
             ELSE (Scale * top) \div total

\* InequalityMetrics.calculate_wealth_share(wealths, top_percentile) over
\* the sequence-like function w on S, top_percentile in 1/100:
\* k = max(1, ceil(n * top_percentile)), and sorted_wealths[:k] are the
\* min(k, n) largest values
WealthShare(w, S, top_percentile) ==
    IF S = {} THEN 0
    ELSE LET total == SumOver(w, S)
             n == Cardinality(S)
             k == Max(1, (n * top_percentile + 99) \div 100)
             sorted == SortAsc(w, S)
             top == SumOver([j \in 1..n |-> sorted[j]],
                            (n - Min(k, n) + 1)..n)
         IN  IF total <= 0 THEN 0
             ELSE Clip((Scale * top) \div total, 0, Scale)

\* InequalityMetrics.calculate_wealth_share(wealths) with the default
\* top_percentile = 0.01
calculate_wealth_share(w, S) == WealthShare(w, S, 1)

(***************************************************************************)
(* Household agent (agents/households.py).                                 *)
(***************************************************************************)
\* SOCIAL_CLASS_PARAMS: income_mean, propensity_to_protest (1/100)
IncomeMean(c) ==
    CASE c = "poor" -> 50 [] c = "working" -> 100
      [] c = "middle" -> 300 [] c = "elite" -> 1000

PropensityToProtest(c) ==
    CASE c = "poor" -> 50 [] c = "working" -> 30
      [] c = "middle" -> 20 [] c = "elite" -> 5

\* HouseholdAgent.__init__; the wealth draw is taken at the mean of the prior
NewHousehold(c) ==
    [social_class |-> c, wealth |-> IncomeMean(c), consumption |-> 0,
     savings |-> 0, unrest |-> 0, employed |-> FALSE]

\* the rule-based action [consumption_pct, savings_pct, protest_pct];
\* obs_unrest is observation[2] = econ.avg_unrest
HouseholdAction(h, obs_unrest) ==
    LET base == PropensityToProtest(h.social_class)
        consumption_pct == Clip(50 + Mul(20, Scale - base), 0, Scale)
    IN  <<consumption_pct, Scale - consumption_pct,
          Clip(Mul(base, obs_unrest), 0, Scale)>>

\* a faulty variant of HouseholdAgent.act: the wealth is left as it was,
\* the consumed part is not taken off the balance
HouseholdActKeepingWealth(h, obs_unrest) ==
    LET action == HouseholdAction(h, obs_unrest)
    IN  [h EXCEPT !.consumption = Mul(h.wealth, action[1]),
                  !.savings = Mul(h.wealth, action[2]),
                  !.unrest = action[3]]

\* a faulty variant of HouseholdAgent.act: the protest fraction is added
\* to the unrest the household already has
HouseholdActAddingUnrest(h, obs_unrest) ==
    LET action == HouseholdAction(h, obs_unrest)
        savings == Mul(h.wealth, action[2])
    IN  [h EXCEPT !.consumption = Mul(h.wealth, action[1]),
                  !.savings = savings,
                  !.unrest = Clip(h.unrest + action[3], 0, Scale),
                  !.wealth = savings]

\* HouseholdAgent.act with policy_network = None
HouseholdAct(h, obs_unrest) ==
    LET action == HouseholdAction(h, obs_unrest)
        savings == Mul(h.wealth, action[2])
    IN  [h EXCEPT !.consumption = Mul(h.wealth, action[1]),
                  !.savings = savings,
                  !.unrest = action[3],
                  !.wealth = savings]

(***************************************************************************)
(* Firm agent (agents/firms.py).                                           *)
(***************************************************************************)
InitialCapital(a) ==
    CASE a = "startup" -> 1000 [] a = "sme" -> 10000 [] a = "mnc" -> 100000

InitialProductivity(a) ==
    CASE a = "startup" -> 80 [] a = "sme" -> 100 [] a = "mnc" -> 130

PricingPower(a) ==
    CASE a = "startup" -> 90 [] a = "sme" -> 100 [] a = "mnc" -> 120

CreditCost(a) ==
    CASE a = "startup" -> 10 [] a = "sme" -> 6 [] a = "mnc" -> 3

\* FirmAgent.__init__.  desired_labor, revenue and wage_bill are attributes
\* that step() creates (read only after it has run); the constructor creates
\* no debt attribute at all, so the record has no debt field.
NewFirm(a) ==
    [archetype |-> a, capital |-> InitialCapital(a), employees |-> 0,
     production |-> 0, price |-> InitialPrice, alive |-> TRUE,
     productivity |-> InitialProductivity(a),
     desired_labor |-> 0, revenue |-> 0, wage_bill |-> 0]

\* FirmAgent.step divides by self.productivity: with productivity 0 the
\* quotient raises (ZeroDivisionError, or int(nan) on a numpy operand)
FirmStepRaises(f) == f.alive /\ f.productivity = 0

\* lines 54-61 of FirmAgent.step: the local labor_required, with
\* shock_multiplier 1.0 (productivity is in 1/Scale on both sides)
LaborRequired(f, demand) ==
    LET effective_demand == Max(demand, MinDemand)
        expected_demand == effective_demand * f.productivity
    IN  Trunc(expected_demand, f.productivity)

\* FirmAgent.step past the bankruptcy check (lines 47-72): labor demand,
\* price update, reset of the tick's financials; shock_multiplier is 1.0
FirmPlan(f, demand, wage, inflation) ==
    LET labor_required == LaborRequired(f, demand)
        max_labor_budget == Trunc(f.capital, Max(wage, 1))
    IN  [f EXCEPT
           !.desired_labor = Min(labor_required, max_labor_budget),
           !.price = f.price
                     + Mul(Mul(f.price, inflation),
                           PricingPower(f.archetype)) \div 2,
           !.revenue = 0,
           !.wage_bill = 0]

\* a faulty variant of FirmAgent.step: a bankrupt firm returns at once,
\* without clearing its labor demand and production
FirmStepBareReturn(f, demand, wage, inflation) ==
    IF ~f.alive THEN f ELSE FirmPlan(f, demand, wage, inflation)

\* FirmAgent.step(market_conditions)
FirmStep(f, demand, wage, inflation) ==
    IF ~f.alive
    THEN [f EXCEPT !.desired_labor = 0, !.production = 0]
    ELSE FirmPlan(f, demand, wage, inflation)

\* FirmAgent.produce
Produce(f) == [f EXCEPT !.production = f.employees * f.productivity]

\* FirmAgent.post_market_step
PostMarketStep(f) ==
    IF ~f.alive THEN f
    ELSE LET capital_cost == Mul(f.capital, CreditCost(f.archetype))
             profit == f.revenue - f.wage_bill - capital_cost
             capital == f.capital + profit
         IN  IF capital < 0
             THEN [f EXCEPT !.capital = capital, !.alive = FALSE,
                            !.employees = 0, !.production = 0]
             ELSE [f EXCEPT !.capital = capital]

(***************************************************************************)
(* Market mechanism (economics/markets.py).                                *)
(***************************************************************************)
\* len(households[:employed]) for a list of n households: a negative bound
\* drops that many elements from the end
SliceLen(employed, n) ==
    IF employed >= 0 THEN Min(employed, n) ELSE Max(n + employed, 0)

\* wage = base_wage * (1 + wage_adjustment * tanh(excess / max(supply, 1)))
LaborWage(labor_demand, labor_supply) ==
    BaseWage
    + (BaseWage * WageAdjustment
          * TanhH(labor_demand - labor_supply, Max(labor_supply, 1)))
         \div (Scale * Scale)

\* `employed / labor_supply` divides two Python ints: with no household
\* (labor_supply = len(households) = 0) it raises ZeroDivisionError
UnemploymentRateRaises(labor_supply) == labor_supply = 0

\* unemployment_rate = 1.0 - employed / labor_supply (labor_supply > 0)
UnemploymentRate(employed, labor_supply) ==
    Scale - (Scale * employed) \div labor_supply

\* MarketMechanism.clear_labor_market.  np.random.shuffle followed by
\* households[:employed] selects a random set of households of that length:
\* `chosen` is that set.
ClearLaborMarket(hs, fs, chosen) ==
    LET labor_supply == NumHouseholds
        labor_demand == SumOver([i \in Firms |-> fs[i].desired_labor], Firms)
        wage == LaborWage(labor_demand, labor_supply)
        employed == Min(labor_supply, labor_demand)
    IN  [households |->
            [i \in Households |->
                IF i \in chosen
                THEN [hs[i] EXCEPT !.employed = TRUE, !.wealth = @ + wage]
                ELSE [hs[i] EXCEPT !.employed = FALSE]],
         firms |->
            [i \in Firms |->
                LET employees == Trunc(fs[i].desired_labor * employed,
                                       Max(labor_demand, 1))
                IN  [fs[i] EXCEPT !.employees = employees,
                                  !.wage_bill = employees * wage]],
         wage |-> wage,
         unemployment_rate |-> UnemploymentRate(employed, labor_supply)]

\* the sets np.random.shuffle + households[:employed] can select
EmployedChoices(fs) ==
    LET labor_demand == SumOver([i \in Firms |-> fs[i].desired_labor], Firms)
        k == SliceLen(Min(NumHouseholds, labor_demand), NumHouseholds)
    IN  {c \in SUBSET Households : Cardinality(c) = k}

\* a faulty variant of clear_goods_market: revenue is allocated on the
\* whole demand, matched by supply or not
ClearGoodsMarketUnmatched(hs, fs) ==
    LET total_demand ==
            Scale * SumOver([i \in Households |-> hs[i].consumption], Households)
        total_supply == SumOver([i \in Firms |-> fs[i].production], Firms)
        excess_demand == total_demand - total_supply
        price_multiplier ==
            Scale + Mul(PriceAdjustment,
                        TanhH(excess_demand, Max(total_supply, Scale)))
    IN  [i \in Firms |->
            LET price == Mul(fs[i].price, price_multiplier)
            IN  [fs[i] EXCEPT
                   !.price = price,
                   !.revenue =
                      IF total_supply > 0
                      THEN MulDiv(MulDiv(fs[i].production, total_demand,
                                         total_supply),
                                  price, Scale * Scale)
                      ELSE 0]]

\* MarketMechanism.clear_goods_market
ClearGoodsMarket(hs, fs) ==
    LET \* consumption is in whole units, production in 1/100: total_demand
        \* is brought to 1/100 for the comparisons with total_supply
        total_demand ==
            Scale * SumOver([i \in Households |-> hs[i].consumption], Households)
        total_supply == SumOver([i \in Firms |-> fs[i].production], Firms)
        excess_demand == total_demand - total_supply
        price_multiplier ==
            Scale + Mul(PriceAdjustment,
                        TanhH(excess_demand, Max(total_supply, Scale)))
    IN  [i \in Firms |->
            LET price == Mul(fs[i].price, price_multiplier)
            IN  [fs[i] EXCEPT
                   !.price = price,
                   !.revenue =
                      IF total_supply > 0
                      THEN MulDiv(MulDiv(fs[i].production,
                                         Min(total_demand, total_supply),
                                         total_supply),
                                  price, Scale * Scale)
                      ELSE 0]]

\* a faulty variant of the leverage cap: the cap is taken on the deficit,
\* max_leverage * max(desired_credit, 1)
GrantedCreditOnDeficit(capital) ==
    LET desired_credit == Abs(capital)
        max_credit == Mul(MaxLeverage, Max(desired_credit, 1))
    IN  Min(desired_credit, max_credit)

\* granted credit of a firm with capital < 0
GrantedCredit(capital) ==
    LET desired_credit == Abs(capital)
        max_credit == Mul(MaxLeverage, Max(capital + desired_credit, 1))
    IN  Min(desired_credit, max_credit)

RECURSIVE CreditFrom(_, _)
\* the loop of clear_credit_market from firm i on.  A firm with capital < 0
\* gets `f.capital += granted_credit`; the next statement, `f.debt +=
\* repayment`, reads an attribute no code ever creates and raises
\* AttributeError, which ends the loop and the caller's step.
CreditFrom(fs, i) ==
    IF i > NumFirms THEN [firms |-> fs, raised |-> FALSE]
    ELSE IF fs[i].capital < 0
    THEN [firms |-> [fs EXCEPT ![i].capital = @ + GrantedCredit(@)],
          raised |-> TRUE]
    ELSE CreditFrom(fs, i + 1)

\* MarketMechanism.clear_credit_market
ClearCreditMarket(fs) == CreditFrom(fs, 1)

(***************************************************************************)
(* Social graph (networks/social_graph.py).                                *)
(***************************************************************************)
Neighbors(g, i) == {j \in Households : {i, j} \in g}

\* a faulty variant of the loop body of spread_influence: the result is
\* stored without _clip
NodeUpdateUnclipped(g, household_states, new_unrest, noise, agent_id) ==
    LET neighbors == Neighbors(g, agent_id)
        own_unrest == household_states[agent_id]
    IN  IF neighbors = {} THEN new_unrest @@ (agent_id :> own_unrest)
        ELSE LET neighbor_unrest ==
                     SumOver(household_states, neighbors)
                        \div Cardinality(neighbors)
                 propagated ==
                     own_unrest
                     + Mul(InfluenceStrength, neighbor_unrest - own_unrest)
                     - Mul(UnrestDecay, own_unrest)
                     + noise[agent_id]
             IN  new_unrest @@ (agent_id :> propagated)

\* a faulty variant of the loop body of spread_influence: a neighbor that
\* the pass has already updated is read from new_unrest
NodeUpdateInPlace(g, household_states, new_unrest, noise, agent_id) ==
    LET neighbors == Neighbors(g, agent_id)
        own_unrest == household_states[agent_id]
        current == [n \in Households |->
                      IF n \in DOMAIN new_unrest THEN new_unrest[n]
                      ELSE household_states[n]]
    IN  IF neighbors = {}
        THEN new_unrest @@ (agent_id :> Clip(own_unrest, 0, Scale))
        ELSE LET neighbor_unrest ==
                     SumOver(current, neighbors) \div Cardinality(neighbors)
                 propagated ==
                     own_unrest
                     + Mul(InfluenceStrength, neighbor_unrest - own_unrest)
                     - Mul(UnrestDecay, own_unrest)
                     + noise[agent_id]
             IN  new_unrest @@ (agent_id :> Clip(propagated, 0, Scale))

\* one iteration of `for agent_id in self.graph.nodes` (lines 39-61):
\* new_unrest with the entry of agent_id added.  household_states is the
\* dict the caller passed, new_unrest the dict being filled, noise[agent_id]
\* the np.random.normal draw of this iteration.
NodeUpdate(g, household_states, new_unrest, noise, agent_id) ==
    LET neighbors == Neighbors(g, agent_id)
        own_unrest == household_states[agent_id]
    IN  IF neighbors = {}
        THEN new_unrest @@ (agent_id :> Clip(own_unrest, 0, Scale))
        ELSE LET neighbor_unrest ==
                     SumOver(household_states, neighbors)
                        \div Cardinality(neighbors)
                 propagated ==
                     own_unrest
                     + Mul(InfluenceStrength, neighbor_unrest - own_unrest)
                     - Mul(UnrestDecay, own_unrest)
                     + noise[agent_id]
             IN  new_unrest @@ (agent_id :> Clip(propagated, 0, Scale))

RECURSIVE SpreadPass(_, _, _, _, _)
\* the loop of spread_influence over the nodes in the sequence `order`,
\* from the dict new_unrest filled so far
SpreadPass(g, household_states, noise, order, new_unrest) ==
    IF order = << >> THEN new_unrest
    ELSE SpreadPass(g, household_states, noise, Tail(order),
                    NodeUpdate(g, household_states, new_unrest, noise,
                               Head(order)))

\* self.graph.nodes: networkx iterates the nodes in insertion order
NodeOrder == [k \in 1..NumHouseholds |-> k]

\* SocialGraph.spread_influence: unrest is household_states, noise the
\* np.random.normal draw of each node
SpreadInfluence(g, unrest, noise) ==
    CHOOSE updated \in
        {[i \in Households |-> new_unrest[i]] :
            new_unrest \in {SpreadPass(g, unrest, noise, NodeOrder, << >>)}} :
        TRUE

\* nx.barabasi_albert_graph(n, 1): nodes 1 and 2 are joined, every later
\* node attaches to one earlier node
SocialGraphs ==
    {g \in SUBSET {{i, j} : i, j \in Households} :
        /\ \A e \in g : Cardinality(e) = 2
        /\ Cardinality(g) = NumHouseholds - 1
        /\ \A j \in Households \ {1} :
              Cardinality({e \in g : j \in e /\ \A k \in e : k <= j}) = 1}

(***************************************************************************)
(* Shock manager (shocks/shock_manager.py).                                *)
(***************************************************************************)
\* ShockManager.add_shock: the ExogenousShock appended to active_shocks
NewShock(shock_type, severity) ==
    [type |-> shock_type, severity |-> severity,
     duration |-> IF shock_type # "permanent" THEN DefaultDuration
                  ELSE PermanentDuration]

\* ShockManager._apply_shock on st = [econ, households, firms]
ApplyShock(shock, st) ==
    LET sev == shock.severity
        econ == st.econ
        hs == st.households
        fs == st.firms
    IN  CASE shock.type = "pandemic" ->
               [st EXCEPT
                  !.econ.unemployment = @ + 5 * sev,
                  !.households = [i \in Households |->
                      [hs[i] EXCEPT !.consumption = Mul(@, Scale - 2 * sev)]]]
          [] shock.type = "financial_crash" ->
               [st EXCEPT
                  !.firms = [i \in Firms |->
                      [fs[i] EXCEPT !.capital = Mul(@, Scale - 8 * sev)]],
                  !.households = [i \in Households |->
                      [hs[i] EXCEPT !.wealth = Mul(@, Scale - 7 * sev)]],
                  !.econ.unemployment = @ + 40 * sev]
          [] shock.type = "political_coup" ->
               [st EXCEPT
                  !.households = [i \in Households |->
                      [hs[i] EXCEPT !.unrest = Clip(@ + 20 * sev, 0, Scale)]],
                  \* hasattr(econ, 'regime_stability') is false on a fresh
                  \* EconomicState: the attribute is then created as 0
                  !.econ.regime_stability =
                      IF @ = << >> THEN <<0>> ELSE <<Max(0, @[1] - sev)>>]
          [] shock.type = "supply_chain_collapse" ->
               [st EXCEPT
                  !.econ.inflation = @ + 50 * sev,
                  !.firms = [i \in Firms |->
                      [fs[i] EXCEPT !.productivity = Mul(@, Scale - 6 * sev)]]]
          [] shock.type = "cyber_attack" ->
               [st EXCEPT
                  !.firms = [i \in Firms |->
                      [fs[i] EXCEPT !.capital = Mul(@, Scale - sev \div 10)]],
                  !.households = [i \in Households |->
                      [hs[i] EXCEPT !.unrest = Clip(@ + 3 * sev, 0, Scale)]]]
          [] shock.type = "climate_catastrophe" ->
               [st EXCEPT
                  !.econ.inflation = @ + 20 * sev,
                  !.econ.unemployment = @ + 10 * sev,
                  !.firms = [i \in Firms |->
                      [fs[i] EXCEPT !.productivity = Mul(@, Scale - 4 * sev)]],
                  !.households = [i \in Households |->
                      [hs[i] EXCEPT !.wealth = Mul(@, Scale - 2 * sev)]]]
          [] OTHER -> st

RECURSIVE ApplyActiveKeepingSpent(_, _, _)
\* a faulty variant of the loop of maybe_trigger: the test is
\* `shock.duration >= 0`, which keeps a shock whose duration has run out
ApplyActiveKeepingSpent(shocks, k, acc) ==
    IF k > Len(shocks) THEN acc
    ELSE LET shock == shocks[k]
             st == ApplyShock(shock, acc.st)
             decayed == [shock EXCEPT !.duration = @ - 1]
         IN  ApplyActiveKeepingSpent(shocks, k + 1,
                 [st |-> st,
                  alive_shocks |->
                      IF decayed.duration >= 0
                      THEN Append(acc.alive_shocks, decayed)
                      ELSE acc.alive_shocks])

RECURSIVE ApplyActive(_, _, _)
\* the loop of maybe_trigger over active_shocks from index k on: applies each
\* shock, decrements its duration and keeps it while the duration is > 0.
\* Result: [st, alive_shocks]
ApplyActive(shocks, k, acc) ==
    IF k > Len(shocks) THEN acc
    ELSE LET shock == shocks[k]
             st == ApplyShock(shock, acc.st)
             decayed == [shock EXCEPT !.duration = @ - 1]
         IN  ApplyActive(shocks, k + 1,
                 [st |-> st,
                  alive_shocks |->
                      IF decayed.duration > 0
                      THEN Append(acc.alive_shocks, decayed)
                      ELSE acc.alive_shocks])

RECURSIVE TriggerAll(_, _)
\* the random-trigger loop of maybe_trigger: add_shock(shock_type, 0.5) for
\* every type whose draw fell below its probability
TriggerAll(shocks, triggered) ==
    IF triggered = {} THEN shocks
    ELSE LET ty == CHOOSE x \in triggered : TRUE
         IN  TriggerAll(Append(shocks, NewShock(ty, 50)), triggered \ {ty})

\* ShockManager.maybe_trigger
MaybeTrigger(shocks, st, triggered) ==
    ApplyActive(TriggerAll(shocks, triggered), 1,
                [st |-> st, alive_shocks |-> << >>])

(***************************************************************************)
(* Economic state (state.py) and government (agents/government.py,         *)
(* rl/rewards.py).                                                         *)
(***************************************************************************)
\* EconomicState(): the dataclass defaults
NewEconomicState ==
    [gdp |-> 0, gdp_last |-> 0, gdp_growth |-> 0, inflation |-> 0,
     unemployment |-> 0, interest_rate |-> 5, tax_rate |-> 20,
     gini_coeff |-> 0, wage_index |-> Scale, price_index |-> Scale,
     avg_unrest |-> 0, top1_wealth_share |-> 0, welfare_spending |-> 0,
     capital_controls |-> 0, regime |-> "stable",
     regime_stability |-> << >>]

\* the state BlackSwanEnv.reset installs
ResetEconomicState ==
    [NewEconomicState EXCEPT !.gdp = KickstartGdp, !.gdp_last = KickstartGdp]

\* EconomicState.update_growth
UpdateGrowth(econ) ==
    [econ EXCEPT
       !.gdp_growth = IF econ.gdp_last > 0
                      THEN (Scale * (econ.gdp - econ.gdp_last)) \div econ.gdp_last
                      ELSE 0,
       !.gdp_last = econ.gdp]

\* EconomicState.apply_policy
ApplyPolicy(econ, action) ==
    [econ EXCEPT !.interest_rate = action[1], !.tax_rate = action[2],
                 !.welfare_spending = action[3], !.capital_controls = action[4]]

\* GovernmentAgent._aggregate_unrest(global_state): iterates
\* global_state.households, the dict field of GlobalState that nothing fills
\* (the agents live in BlackSwanEnv.households), so len(households) == 0
AggregateUnrest(state_households) ==
    IF Cardinality(state_households) = 0 THEN 0
    ELSE Clip(SumOver([h \in state_households |-> h.unrest_level],
                      state_households)
                 \div Cardinality(state_households), 0, Scale)

\* np.log(max(consumption, 1e-6)) in 1/100 for a consumption in whole
\* units, tabulated on half steps of the logarithm (the entry is the
\* largest half step the logarithm reaches): log(1e-6) = -13.81 for a
\* consumption <= 0, 0 from 1, 0.5 from 2, 1.0 from 3, ..., 9.0 from 8104
LogConsumption(consumption) ==
    IF consumption <= 0 THEN -1381
    ELSE IF consumption < 2 THEN 0
    ELSE IF consumption < 3 THEN 50
    ELSE IF consumption < 5 THEN 100
    ELSE IF consumption < 8 THEN 150
    ELSE IF consumption < 13 THEN 200
    ELSE IF consumption < 21 THEN 250
    ELSE IF consumption < 34 THEN 300
    ELSE IF consumption < 55 THEN 350
    ELSE IF consumption < 91 THEN 400
    ELSE IF consumption < 149 THEN 450
    ELSE IF consumption < 245 THEN 500
    ELSE IF consumption < 404 THEN 550
    ELSE IF consumption < 666 THEN 600
    ELSE IF consumption < 1097 THEN 650
    ELSE IF consumption < 1809 THEN 700
    ELSE IF consumption < 2981 THEN 750
    ELSE IF consumption < 4915 THEN 800
    ELSE IF consumption < 8104 THEN 850
    ELSE 900

\* RewardFunctions.utility_consumption
utility_consumption(consumption) == LogConsumption(consumption)

\* RewardFunctions.household_reward with the default weights
\* (alpha 1.0, beta 1.2, gamma 1.5)
household_reward(consumption, inflation, unemployment_risk, unrest_exposure) ==
    LET i == Clip(inflation, 0, Scale)
        u == Clip(unemployment_risk, 0, Scale)
        x == Clip(unrest_exposure, 0, Scale)
        utility == LogConsumption(consumption)
        penalty == i + Mul(120, u) + Mul(150, Mul(x, x))
    IN  Clip(utility - penalty, -500, 500)

\* the parameters of household_reward, and those without a default
HouseholdRewardParameters ==
    {"consumption", "inflation", "unemployment_risk", "unrest_exposure",
     "alpha", "beta", "gamma"}
HouseholdRewardRequired ==
    {"consumption", "inflation", "unemployment_risk", "unrest_exposure"}

\* a call with keyword arguments only binds when every keyword names a
\* parameter and every parameter without a default is given (otherwise
\* Python raises TypeError before the body runs)
KeywordsBind(keywords, parameters, required) ==
    keywords \subseteq parameters /\ required \subseteq keywords

\* HouseholdAgent.compute_reward(global_state, local_exposure): the
\* keyword arguments of its call of RewardFunctions.household_reward, and
\* the outcome of the call
HouseholdComputeReward(h, e, local_exposure) ==
    LET kwargs == [consumption_utility |-> utility_consumption(h.consumption),
                   inflation |-> e.inflation,
                   unemployment |-> e.unemployment,
                   unrest_exposure |-> local_exposure]
    IN  IF KeywordsBind(DOMAIN kwargs, HouseholdRewardParameters,
                        HouseholdRewardRequired)
        THEN [raised |-> FALSE,
              reward |-> household_reward(kwargs.consumption, kwargs.inflation,
                                          kwargs.unemployment_risk,
                                          kwargs.unrest_exposure)]
        ELSE [raised |-> TRUE, error |-> "TypeError"]

\* a faulty variant of government_reward: the result is returned without
\* the final np.clip
government_reward_unclipped(gdp_growth, inflation, unemployment, unrest, inequality) ==
    LET g == Clip(gdp_growth, -25, 25)
        i == Clip(inflation, 0, Scale)
        u == Clip(unemployment, 0, Scale)
        r == Clip(unrest, 0, Scale)
        q == Clip(inequality, 0, Scale)
        reward == g - Mul(80, i) - Mul(120, u) - Mul(200, Mul(r, r)) - q
        penalty == IF r > 85 /\ q > 60 THEN 200 ELSE 0
    IN  reward - penalty

\* RewardFunctions.government_reward with the default weights
government_reward(gdp_growth, inflation, unemployment, unrest, inequality) ==
    LET g == Clip(gdp_growth, -25, 25)
        i == Clip(inflation, 0, Scale)
        u == Clip(unemployment, 0, Scale)
        r == Clip(unrest, 0, Scale)
        q == Clip(inequality, 0, Scale)
        reward == g - Mul(80, i) - Mul(120, u) - Mul(200, Mul(r, r)) - q
        penalty == IF r > 85 /\ q > 60 THEN 200 ELSE 0
    IN  Clip(reward - penalty, -500, 500)

\* lines 86-91 of GovernmentAgent.compute_reward: the local gdp_growth
GdpGrowth(econ, prev_gdp) ==
    IF prev_gdp = << >> THEN 0
    ELSE IF prev_gdp[1] >= 1
    THEN (Scale * (econ.gdp - prev_gdp[1])) \div prev_gdp[1]
    \* max(prev_gdp, 1e-6) = 1e-6: any difference saturates the clip
    ELSE Clip(econ.gdp - prev_gdp[1], -1, 1) * 1000000

\* GovernmentAgent.compute_reward(global_state): global_state.households
\* is the dict GlobalState creates empty and nothing fills
ComputeReward(econ, prev_gdp) ==
    government_reward(GdpGrowth(econ, prev_gdp), econ.inflation,
                      econ.unemployment, AggregateUnrest({}), econ.gini_coeff)

(***************************************************************************)
(* State.                                                                  *)
(***************************************************************************)
VARIABLES
    econ,            \* env.state.economics (EconomicState)
    households,      \* env.households: id -> HouseholdAgent
    firms,           \* env.firms: id -> FirmAgent
    graph,           \* env.social_graph.graph: set of undirected edges
    timestep,        \* env.timestep
    active_shocks,   \* env.shocks.active_shocks
    prev_gdp,        \* env.government.prev_gdp: << >> for None, else <<v>>
    current_interest_rate, \* env.government.current_interest_rate
    pc,              \* position of every caller of the environment
    loc,             \* locals of the env.step call of every caller
    ret,             \* what the last env.step call of every caller did
    running,         \* Simulator.running
    thread,          \* Simulator.thread: 0 for None, else the thread created
    nthreads,        \* number of threading.Thread objects created so far
    metrics,         \* the last dict Simulator.get_metrics returned, if any
    published,       \* history: econ as of the last tick boundary
    nsteps           \* history: number of env.step calls made so far

vars == <<econ, households, firms, graph, timestep, active_shocks, prev_gdp,
          current_interest_rate, pc, loc, ret, running, thread, nthreads,
          metrics, published, nsteps>>

envVars == <<econ, households, firms, graph, timestep, active_shocks,
             prev_gdp, current_interest_rate>>
simVars == <<running, thread, nthreads>>

NoLocals == [action |-> <<>>, unemployment |-> 0]
NoReturn == [status |-> "none", terminated |-> FALSE, truncated |-> FALSE,
             reward |-> 0]

\* positions inside env.step: the phase the caller executes next
StepPositions == {"s_plan", "s_markets", "s_macros", "s_finish"}
InStep(c) == pc[c] \in StepPositions

\* BlackSwanEnv.__init__ followed by env.reset(), as Simulator.__init__ runs
\* them (simulator.py 43-44); no loop thread exists yet
Init ==
    /\ econ = ResetEconomicState
    /\ households \in [Households -> {NewHousehold(c) : c \in SocialClasses}]
    /\ firms \in [Firms -> {NewFirm(a) : a \in Archetypes}]
    /\ graph \in SocialGraphs
    /\ timestep = 0
    /\ active_shocks = << >>
    /\ prev_gdp = <<KickstartGdp>>
    /\ current_interest_rate = << >>
    /\ pc = [c \in Callers |-> IF c = ApiCaller THEN "idle" ELSE "unborn"]
    /\ loc = [c \in Callers |-> NoLocals]
    /\ ret = [c \in Callers |-> NoReturn]
    /\ running = FALSE
    /\ thread = 0
    /\ nthreads = 0
    /\ metrics = << >>
    /\ published = ResetEconomicState
    /\ nsteps = 0

(***************************************************************************)
(* BlackSwanEnv.reset (env.py 90-105).  Only the GlobalState, the timestep *)
(* and the government's prev_gdp are replaced: households, firms, the      *)
(* graph and the shock manager are left as the previous episode left them. *)
(***************************************************************************)
EnvReset ==
    /\ econ' = ResetEconomicState
    /\ timestep' = 0
    /\ prev_gdp' = <<KickstartGdp>>
    /\ published' = ResetEconomicState
    /\ UNCHANGED <<households, firms, graph, active_shocks,
                   current_interest_rate>>

(***************************************************************************)
(* BlackSwanEnv.step (env.py 110-184) in five phases.  A caller c enters   *)
(* with StepShocks and leaves with StepFinish, or earlier when a phase     *)
(* raises.                                                                 *)
(***************************************************************************)
\* where the caller continues when its env.step call has ended
AfterStep(c, status) ==
    IF c = ApiCaller THEN "idle"
    ELSE IF status = "raised" THEN "dead" ELSE "post"

\* the call of caller c ends by raising: nothing is returned
Raise(c) ==
    /\ pc' = [pc EXCEPT ![c] = AfterStep(c, "raised")]
    /\ ret' = [ret EXCEPT ![c] = [NoReturn EXCEPT !.status = "raised"]]
    /\ loc' = [loc EXCEPT ![c] = NoLocals]

\* lines 111-116: timestep += 1; shocks.maybe_trigger(...)
StepShocks(c, action, triggered) ==
    /\ pc[c] = IF c = ApiCaller THEN "idle" ELSE "call"
    /\ Len(active_shocks) + Cardinality(triggered) <= MaxShocks
    /\ timestep' = timestep + 1
    /\ LET r == MaybeTrigger(active_shocks,
                    [econ |-> econ, households |-> households, firms |-> firms],
                    triggered)
       IN  /\ econ' = r.st.econ
           /\ households' = r.st.households
           /\ firms' = r.st.firms
           /\ active_shocks' = r.alive_shocks
    /\ pc' = [pc EXCEPT ![c] = "s_plan"]
    /\ loc' = [loc EXCEPT ![c] = [NoLocals EXCEPT !.action = action]]
    /\ ret' = [ret EXCEPT ![c] = NoReturn]
    /\ UNCHANGED <<graph, prev_gdp, current_interest_rate, simVars, metrics,
                   published>>

\* the tick budget of the exploration: one more env.step call is admitted
Admit ==
    /\ nsteps < MaxTicks
    /\ nsteps' = nsteps + 1

RECURSIVE FirmsStep(_, _, _, _, _)
\* `for f in self.firms: f.step(market_conditions)` from firm i on
FirmsStep(fs, i, demand, wage, inflation) ==
    IF i > NumFirms THEN [firms |-> fs, raised |-> FALSE]
    ELSE IF FirmStepRaises(fs[i]) THEN [firms |-> fs, raised |-> TRUE]
    ELSE FirmsStep([fs EXCEPT ![i] = FirmStep(fs[i], demand, wage, inflation)],
                   i + 1, demand, wage, inflation)

\* lines 121-150: apply_policy, firms step, households act, social diffusion
StepPlan(c, noise) ==
    /\ pc[c] = "s_plan"
    /\ LET e1 == ApplyPolicy(econ, loc[c].action)
           planned == FirmsStep(firms, 1, e1.gdp, Mul(BaseWage, e1.wage_index),
                                e1.inflation)
           acted == [i \in Households |-> HouseholdAct(households[i], e1.avg_unrest)]
           household_states == [i \in Households |-> acted[i].unrest]
           updated_unrest == SpreadInfluence(graph, household_states, noise)
       IN  /\ econ' = e1
           /\ current_interest_rate' = <<e1.interest_rate>>
           /\ firms' = planned.firms
           /\ IF planned.raised
              THEN /\ Raise(c)
                   /\ UNCHANGED households
              ELSE /\ households' = [i \in Households |->
                          [acted[i] EXCEPT !.unrest = updated_unrest[i]]]
                   /\ pc' = [pc EXCEPT ![c] = "s_markets"]
                   /\ UNCHANGED <<loc, ret>>
    /\ UNCHANGED <<graph, timestep, active_shocks, prev_gdp, simVars, metrics,
                   published, nsteps>>

\* lines 155-166: labor market, produce, goods market, credit market, settle
\* (each intermediate result is bound as the element of a one-element set)
StepMarkets(c, chosen) ==
    /\ pc[c] = "s_markets"
    /\ chosen \in EmployedChoices(firms)
    /\ \E labor \in {ClearLaborMarket(households, firms, chosen)} :
       \E produced \in {[i \in Firms |-> Produce(labor.firms[i])]} :
       \E sold \in {ClearGoodsMarket(labor.households, produced)} :
       \E credit \in {ClearCreditMarket(sold)} :
          /\ households' = labor.households
          /\ IF credit.raised
             THEN /\ firms' = credit.firms
                  /\ Raise(c)
             ELSE /\ firms' = [i \in Firms |-> PostMarketStep(credit.firms[i])]
                  /\ pc' = [pc EXCEPT ![c] = "s_macros"]
                  /\ loc' = [loc EXCEPT ![c].unemployment = labor.unemployment_rate]
                  /\ UNCHANGED ret
    /\ UNCHANGED <<econ, graph, timestep, active_shocks, prev_gdp,
                   current_interest_rate, simVars, metrics, published, nsteps>>

\* BlackSwanEnv._update_macros(unemployment); draw is 0.01 * randn()
UpdateMacros(e, hs, fs, unemployment, draw) ==
    LET wealths == [i \in Households |-> hs[i].wealth]
    IN  UpdateGrowth(
          [e EXCEPT
             !.gdp = SumOver([i \in Firms |-> fs[i].revenue], Firms),
             !.inflation = Clip(e.inflation + draw, 0, Scale),
             !.unemployment = unemployment,
             !.gini_coeff = calculate_gini(wealths, Households),
             !.top1_wealth_share = calculate_wealth_share(wealths, Households),
             !.avg_unrest = SumOver([i \in Households |-> hs[i].unrest], Households)
                               \div NumHouseholds])

\* line 171
StepMacros(c, draw) ==
    /\ pc[c] = "s_macros"
    /\ econ' = UpdateMacros(econ, households, firms, loc[c].unemployment, draw)
    /\ pc' = [pc EXCEPT ![c] = "s_finish"]
    /\ UNCHANGED <<households, firms, graph, timestep, active_shocks, prev_gdp,
                   current_interest_rate, loc, ret, simVars, metrics,
                   published, nsteps>>

\* a faulty variant of the collapse condition: unrest or unemployment alone
\* is taken for a collapse
CollapsedOnEither(e) ==
    \/ e.avg_unrest > UnrestCollapse
    \/ e.unemployment > UnemploymentCollapse
    \/ e.gdp < 1

\* the condition of BlackSwanEnv._check_collapse; gdp is kept in whole
\* units, where gdp < 1e-3 is gdp < 1
Collapsed(e) ==
    \/ e.avg_unrest > UnrestCollapse /\ e.unemployment > UnemploymentCollapse
    \/ e.gdp < 1

\* a faulty variant of _check_collapse: a tick that does not meet the
\* condition writes regime = "stable"
CheckCollapseRestoring(e) ==
    [e EXCEPT !.regime = IF Collapsed(e) THEN "collapsed" ELSE "stable"]

\* BlackSwanEnv._check_collapse: the state it leaves
CheckCollapse(e) == IF Collapsed(e) THEN [e EXCEPT !.regime = "collapsed"] ELSE e

\* lines 176-184: reward, termination, return
StepFinish(c) ==
    /\ pc[c] = "s_finish"
    /\ prev_gdp' = <<econ.gdp>>
    /\ econ' = CheckCollapse(econ)
    /\ ret' = [ret EXCEPT ![c] =
                 [status |-> "returned",
                  terminated |-> Collapsed(econ),
                  truncated |-> timestep >= MaxSteps,
                  reward |-> ComputeReward(econ, prev_gdp)]]
    /\ pc' = [pc EXCEPT ![c] = AfterStep(c, "returned")]
    /\ loc' = [loc EXCEPT ![c] = NoLocals]
    /\ published' = econ'
    /\ UNCHANGED <<households, firms, graph, timestep, active_shocks,
                   current_interest_rate, simVars, metrics, nsteps>>

(***************************************************************************)
(* The controlling side: shock injection and metrics polling.              *)
(***************************************************************************)
\* Simulator.add_shock -> ShockManager.add_shock (any thread, any time)
AddShock(shock_type, severity) ==
    /\ Len(active_shocks) < MaxShocks
    /\ active_shocks' = Append(active_shocks, NewShock(shock_type, severity))
    /\ UNCHANGED <<econ, households, firms, graph, timestep, prev_gdp,
                   current_interest_rate, pc, loc, ret, simVars, metrics,
                   published, nsteps>>

\* the scalar entries of the dict Simulator.get_metrics builds from e
MetricsOf(e) ==
    [gdp_growth |-> e.gdp_growth, inflation |-> e.inflation,
     unemployment |-> e.unemployment, unrest |-> e.avg_unrest]

\* Simulator.get_metrics: reads env.state.economics as it is right now
GetMetrics ==
    /\ metrics = << >>
    /\ metrics' = <<MetricsOf(econ)>>
    /\ UNCHANGED <<envVars, pc, loc, ret, simVars, published, nsteps>>

\* the consumer (streamlit_app.py fetch_metrics) renders the dict and drops
\* it; this touches nothing shared, so it is taken as the consumer's
\* immediate next step
Render ==
    /\ metrics # << >>
    /\ metrics' = << >>
    /\ UNCHANGED <<envVars, pc, loc, ret, simVars, published, nsteps>>

(***************************************************************************)
(* A direct user of the environment: reset() and step() in any order.      *)
(***************************************************************************)
ApiReset ==
    /\ pc[ApiCaller] = "idle"
    /\ EnvReset
    /\ ret' = [ret EXCEPT ![ApiCaller] = NoReturn]
    /\ UNCHANGED <<pc, loc, simVars, metrics, nsteps>>

ApiStep ==
    \/ \E a \in Actions, tr \in SUBSET RandomShockTypes :
          Admit /\ StepShocks(ApiCaller, a, tr)
    \/ \E noise \in [Households -> SocialNoiseDraws] : StepPlan(ApiCaller, noise)
    \/ \E chosen \in SUBSET Households : StepMarkets(ApiCaller, chosen)
    \/ \E draw \in InflationDraws : StepMacros(ApiCaller, draw)
    \/ StepFinish(ApiCaller)

Next ==
    \/ metrics = << >> /\ ApiReset
    \/ metrics = << >> /\ ApiStep
    \/ metrics = << >> /\ \E ty \in ShockTypes, sev \in Severities : AddShock(ty, sev)
    \/ GetMetrics
    \/ Render

Spec == Init /\ [][Next]_vars

(***************************************************************************)
(* The Simulator (simulation/simulator.py): start(), stop() and the loop   *)
(* threads.  The draws of the environment are taken from one-element sets  *)
(* here; what is explored is the interleaving of the threads.              *)
(***************************************************************************)
SimActions == {<<5, 20, 0, 0>>}
SimNoiseDraws == {80}
SimInflationDraws == {1}

\* Simulator.start
Start ==
    /\ ~running
    /\ nthreads < MaxThreads
    /\ running' = TRUE
    /\ nthreads' = nthreads + 1
    /\ thread' = nthreads + 1
    /\ pc' = [pc EXCEPT ![nthreads + 1] = "check"]
    /\ UNCHANGED <<envVars, loc, ret, metrics, published, nsteps>>

\* Simulator.stop: clears the flag, then thread.join(timeout=1.0), which
\* returns when the thread has ended or when the second is over, whichever
\* comes first; the caller learns nothing from it and changes no state
Stop ==
    /\ running
    /\ running' = FALSE
    /\ UNCHANGED <<envVars, pc, loc, ret, thread, nthreads, metrics,
                   published, nsteps>>

\* a faulty variant of the loop head: the flag is not consulted (while True)
LoopCheckUnconditional(t) ==
    /\ pc[t] = "check"
    /\ Admit
    /\ pc' = [pc EXCEPT ![t] = "call"]
    /\ UNCHANGED <<envVars, loc, ret, simVars, metrics, published>>

\* `while self.running:` (line 85), then lines 91-102 up to the env.step call
LoopCheck(t) ==
    /\ pc[t] = "check"
    /\ IF running
       THEN /\ Admit
            /\ pc' = [pc EXCEPT ![t] = "call"]
       ELSE /\ pc' = [pc EXCEPT ![t] = "done"]
            /\ UNCHANGED nsteps
    /\ UNCHANGED <<envVars, loc, ret, simVars, metrics, published>>

\* line 105: env.step(action) on the shared environment
LoopStep(t) ==
    \/ \E a \in SimActions : StepShocks(t, a, {}) /\ UNCHANGED nsteps
    \/ \E noise \in [Households -> SimNoiseDraws] : StepPlan(t, noise)
    \/ \E chosen \in SUBSET Households : StepMarkets(t, chosen)
    \/ \E draw \in SimInflationDraws : StepMacros(t, draw)
    \/ StepFinish(t)

\* lines 108-133: store the experience, train, record the metrics; then the
\* branch on `terminated or truncated`; time.sleep(0.5) follows either way
LoopPost(t) ==
    /\ pc[t] = "post"
    /\ pc' = [pc EXCEPT ![t] = IF ret[t].terminated \/ ret[t].truncated
                                THEN "reset" ELSE "check"]
    /\ UNCHANGED <<envVars, loc, ret, simVars, metrics, published, nsteps>>

\* line 134: self.obs, _ = self.env.reset()
LoopReset(t) ==
    /\ pc[t] = "reset"
    /\ EnvReset
    /\ pc' = [pc EXCEPT ![t] = "check"]
    /\ UNCHANGED <<loc, ret, simVars, metrics, nsteps>>

\* everything loop thread t can do
Loop(t) == LoopCheck(t) \/ LoopStep(t) \/ LoopPost(t) \/ LoopReset(t)

SimNext ==
    \/ metrics = << >> /\ Start
    \/ metrics = << >> /\ Stop
    \/ metrics = << >> /\ \E t \in Threads : Loop(t)
    \/ metrics = << >> /\ \E ty \in ShockTypes, sev \in Severities : AddShock(ty, sev)
    \/ GetMetrics
    \/ Render

SimSpec == Init /\ [][SimNext]_vars

\* the Simulator with nobody injecting shocks or polling metrics: start(),
\* stop() and the loop threads alone.  Every loop thread is a daemon thread
\* of the interpreter, which keeps scheduling it while it has a step to take
\* (time.sleep(0.5) returns, env.step has no blocking call): weak fairness
\* of each thread's steps
LoopNext ==
    \/ Start
    \/ Stop
    \/ \E t \in Threads : Loop(t)

LoopFairness == \A t \in Threads : WF_vars(Loop(t))

LoopSpec == Init /\ [][LoopNext]_vars /\ LoopFairness

(***************************************************************************)
(* The shock manager on its own (shocks/shock_manager.py): add_shock and   *)
(* maybe_trigger called in any order on the environment's state, households *)
(* and firms, for as many calls as a shock lives.                          *)
(***************************************************************************)
\* the types add_shock is called with, "permanent" included
LifecycleShockTypes == ShockTypes \cup {"permanent"}

\* ShockManager.maybe_trigger(state, households, firms)
ShockTrigger(triggered) ==
    /\ nsteps < MaxTriggers
    /\ Len(active_shocks) + Cardinality(triggered) <= MaxShocks
    /\ nsteps' = nsteps + 1
    /\ \E r \in {MaybeTrigger(active_shocks,
                    [econ |-> econ, households |-> households, firms |-> firms],
                    triggered)} :
          /\ econ' = r.st.econ
          /\ households' = r.st.households
          /\ firms' = r.st.firms
          /\ active_shocks' = r.alive_shocks
    /\ UNCHANGED <<graph, timestep, prev_gdp, current_interest_rate, pc, loc,
                   ret, simVars, metrics, published>>

ShockNext ==
    \/ \E tr \in SUBSET RandomShockTypes : ShockTrigger(tr)
    \/ \E ty \in LifecycleShockTypes, sev \in Severities : AddShock(ty, sev)

ShockSpec == Init /\ [][ShockNext]_vars

(***************************************************************************)
(* ShockManager.maybe_trigger step by step (shock_manager.py 19-37), as    *)
(* the run-loop thread executes it while the controlling thread may call   *)
(* Simulator.add_shock (simulator.py 69-70), which takes no lock.          *)
(* active_shocks is the list object self.active_shocks is bound to; the    *)
(* thread's alive_shocks and the position of its list iterator are locals. *)
(* A list iterator reads the list by index at every step, so it visits an  *)
(* element appended while the loop is still running.  The Shock objects    *)
(* are shared by both lists: the decrement shows in active_shocks too.     *)
(***************************************************************************)
\* env.step lines 113-116 and maybe_trigger lines 19-30: the timestep, the
\* random triggers (each through add_shock) and `alive_shocks = []`
TriggerBegin(t, action, triggered) ==
    /\ pc[t] = "call"
    /\ Len(active_shocks) + Cardinality(triggered) <= MaxShocks
    /\ timestep' = timestep + 1
    /\ active_shocks' = TriggerAll(active_shocks, triggered)
    /\ pc' = [pc EXCEPT ![t] = "mt_loop"]
    /\ loc' = [loc EXCEPT ![t] = [action |-> action, unemployment |-> 0,
                                  alive_shocks |-> << >>, index |-> 1]]
    /\ ret' = [ret EXCEPT ![t] = NoReturn]
    /\ UNCHANGED <<econ, households, firms, graph, prev_gdp,
                   current_interest_rate, simVars, metrics, published, nsteps>>

\* one iteration of `for shock in self.active_shocks:` (lines 31-35)
TriggerIterate(t) ==
    /\ pc[t] = "mt_loop"
    /\ loc[t].index <= Len(active_shocks)
    /\ LET shock == active_shocks[loc[t].index]
           st == ApplyShock(shock, [econ |-> econ, households |-> households,
                                    firms |-> firms])
           decayed == [shock EXCEPT !.duration = @ - 1]
       IN  /\ econ' = st.econ
           /\ households' = st.households
           /\ firms' = st.firms
           /\ active_shocks' = [active_shocks EXCEPT ![loc[t].index] = decayed]
           /\ loc' = [loc EXCEPT
                        ![t].index = @ + 1,
                        ![t].alive_shocks =
                            IF decayed.duration > 0 THEN Append(@, decayed)
                            ELSE @]
    /\ UNCHANGED <<graph, timestep, prev_gdp, current_interest_rate, pc, ret,
                   simVars, metrics, published, nsteps>>

\* the iterator finds no element at its index: the for statement ends
TriggerExhaust(t) ==
    /\ pc[t] = "mt_loop"
    /\ loc[t].index > Len(active_shocks)
    /\ pc' = [pc EXCEPT ![t] = "mt_rebind"]
    /\ UNCHANGED <<envVars, loc, ret, simVars, metrics, published, nsteps>>

\* line 37: self.active_shocks = alive_shocks; maybe_trigger returns
TriggerRebind(t) ==
    /\ pc[t] = "mt_rebind"
    /\ active_shocks' = loc[t].alive_shocks
    /\ pc' = [pc EXCEPT ![t] = "s_plan"]
    /\ loc' = [loc EXCEPT ![t] = [NoLocals EXCEPT !.action = loc[t].action]]
    /\ UNCHANGED <<econ, households, firms, graph, timestep, prev_gdp,
                   current_interest_rate, ret, simVars, metrics, published,
                   nsteps>>

\* the loop thread with maybe_trigger taken step by step
RaceLoop(t) ==
    \/ LoopCheck(t)
    \/ \E a \in SimActions, tr \in SUBSET RandomShockTypes :
          TriggerBegin(t, a, tr)
    \/ TriggerIterate(t)
    \/ TriggerExhaust(t)
    \/ TriggerRebind(t)
    \/ \E noise \in [Households -> SimNoiseDraws] : StepPlan(t, noise)
    \/ \E chosen \in SUBSET Households : StepMarkets(t, chosen)
    \/ \E draw \in SimInflationDraws : StepMacros(t, draw)
    \/ StepFinish(t)
    \/ LoopPost(t)
    \/ LoopReset(t)

\* start() once, the loop thread, and add_shock from the controlling thread
RaceNext ==
    \/ Start
    \/ \E t \in Threads : RaceLoop(t)
    \/ \E ty \in ShockTypes, sev \in Severities : AddShock(ty, sev)

RaceSpec == Init /\ [][RaceNext]_vars

(***************************************************************************)
(* Single operations called on their own, once, with arguments drawn from  *)
(* small sets.  The call and its outcome are recorded in ret[ApiCaller]:   *)
(* the function, its arguments, whether it returned or raised, its value.  *)
(***************************************************************************)
Returned(fn, args, value) ==
    [status |-> "returned", fn |-> fn, args |-> args, value |-> value]

Raised(fn, args, error) ==
    [status |-> "raised", fn |-> fn, args |-> args, error |-> error]

\* a call that raises, and the objects it was given as it leaves them
RaisedLeaving(fn, args, error, objects) ==
    [status |-> "raised", fn |-> fn, args |-> args, error |-> error,
     left |-> objects]

\* no call has been made yet
NoCallYet == ret[ApiCaller].status = "none"

\* the outcome of the call is recorded
Record(result) == ret' = [ret EXCEPT ![ApiCaller] = result]

\* what a call on objects of its own leaves alone
unitFrame == <<envVars, pc, loc, simVars, metrics, published, nsteps>>

UnitCapitals == {1000, 30000}
UnitDemands == {0, 100, 200}
UnitWages == {0, 50}
UnitInflations == {0, 10}

\* firm = FirmAgent(id, a, config) with firm.capital set;
\* firm.step({"demand": ..., "wage": ..., "inflation": ...})
CallFirmStep(a, capital, demand, wage, inflation) ==
    \E firm \in {[NewFirm(a) EXCEPT !.capital = capital]} :
    \E stepped \in {FirmStep(firm, demand, wage, inflation)} :
       /\ NoCallYet
       /\ Record(Returned("FirmAgent.step",
                     [archetype |-> a, capital |-> capital, demand |-> demand,
                      wage |-> wage, inflation |-> inflation],
                     [labor_required |-> LaborRequired(firm, demand),
                      desired_labor |-> stepped.desired_labor,
                      price |-> stepped.price]))
       /\ UNCHANGED unitFrame

\* every undirected graph on the households, isolated nodes included
AllGraphs == SUBSET {e \in SUBSET Households : Cardinality(e) = 2}
UnrestValues == {0, 50, 100}
UnitNoiseDraws == {-80, 0, 80}

\* SocialGraph.spread_influence(household_states) on the graph g
CallSpreadInfluence(g, unrest, noise) ==
    /\ NoCallYet
    /\ Record(Returned("SocialGraph.spread_influence",
                       [graph |-> g, unrest |-> unrest, noise |-> noise],
                       SpreadInfluence(g, unrest, noise)))
    /\ UNCHANGED unitFrame

UnitConsumptions == {-10, 0, 1, 30, 9000}
\* inflation, unemployment, unrest, inequality and growth, in and out of
\* their nominal ranges
RewardInputs == {-50, 0, 90, 150}

\* household.compute_reward(state, local_exposure) for household i with
\* the given consumption, in a state with the given inflation and
\* unemployment
CallHouseholdComputeReward(i, consumption, inflation, unemployment, local_exposure) ==
    \E outcome \in {HouseholdComputeReward(
                        [households[i] EXCEPT !.consumption = consumption],
                        [econ EXCEPT !.inflation = inflation,
                                     !.unemployment = unemployment],
                        local_exposure)} :
       /\ NoCallYet
       /\ Record(LET args == [household |-> i, consumption |-> consumption,
                              inflation |-> inflation,
                              unemployment |-> unemployment,
                              local_exposure |-> local_exposure]
                 IN  IF outcome.raised
                     THEN Raised("HouseholdAgent.compute_reward", args,
                                 outcome.error)
                     ELSE Returned("HouseholdAgent.compute_reward", args,
                                   outcome.reward))
       /\ UNCHANGED unitFrame

\* RewardFunctions.household_reward(consumption, inflation,
\* unemployment_risk, unrest_exposure)
CallHouseholdReward(consumption, inflation, unemployment_risk, unrest_exposure) ==
    /\ NoCallYet
    /\ Record(Returned("RewardFunctions.household_reward",
                       [consumption |-> consumption, inflation |-> inflation,
                        unemployment_risk |-> unemployment_risk,
                        unrest_exposure |-> unrest_exposure],
                       household_reward(consumption, inflation,
                                        unemployment_risk, unrest_exposure)))
    /\ UNCHANGED unitFrame

\* RewardFunctions.government_reward(gdp_growth, inflation, unemployment,
\* unrest, inequality)
CallGovernmentReward(gdp_growth, inflation, unemployment, unrest, inequality) ==
    /\ NoCallYet
    /\ Record(Returned("RewardFunctions.government_reward",
                       [gdp_growth |-> gdp_growth, inflation |-> inflation,
                        unemployment |-> unemployment, unrest |-> unrest,
                        inequality |-> inequality],
                       government_reward(gdp_growth, inflation, unemployment,
                                         unrest, inequality)))
    /\ UNCHANGED unitFrame

\* wealths as they are after shocks: negative, zero and positive entries
UnitWealths == {-3, 0, 1, 3}

\* InequalityMetrics.calculate_gini([w[i] for i in S])
CallCalculateGini(w, S) ==
    /\ NoCallYet
    /\ Record(Returned("InequalityMetrics.calculate_gini",
                       [incomes |-> w, members |-> S], calculate_gini(w, S)))
    /\ UNCHANGED unitFrame

\* wealths with a positive total and a negative entry among them
ShareWealths == UnitWealths \cup {5}
\* top_percentile in 1/100, values above 1 included
Percentiles == {1, 34, 50, 51, 67, 100, 150}

\* InequalityMetrics.calculate_wealth_share([w[i] for i in S], p)
CallWealthShare(w, S, top_percentile) ==
    /\ NoCallYet
    /\ Record(Returned("InequalityMetrics.calculate_wealth_share",
                       [wealths |-> w, members |-> S,
                        top_percentile |-> top_percentile],
                       WealthShare(w, S, top_percentile)))
    /\ UNCHANGED unitFrame

UnitLaborDemands == {0, 1, 5}
UnitProductions == {0, 800, 2400}

\* market.clear_labor_market(households, firms) with the households of
\* `members` and one firm whose desired_labor is given: what it returns
CallClearLaborMarket(members, desired_labor) ==
    \E labor_supply \in {Cardinality(members)} :
       /\ NoCallYet
       /\ Record(LET args == [households |-> members,
                              desired_labor |-> desired_labor]
                 IN  IF UnemploymentRateRaises(labor_supply)
                     THEN Raised("MarketMechanism.clear_labor_market", args,
                                 "ZeroDivisionError")
                     ELSE Returned("MarketMechanism.clear_labor_market", args,
                             [wage |-> LaborWage(desired_labor, labor_supply),
                              unemployment_rate |->
                                 UnemploymentRate(
                                    Min(labor_supply, desired_labor),
                                    labor_supply)]))
       /\ UNCHANGED unitFrame

\* market.clear_goods_market(households, firms) with every household
\* consuming `consumption` and firm i having produced production[i]:
\* the firms it leaves
CallClearGoodsMarket(consumption, production) ==
    /\ NoCallYet
    /\ Record(Returned("MarketMechanism.clear_goods_market",
                [consumption |-> consumption, production |-> production],
                ClearGoodsMarket(
                   [i \in Households |->
                       [households[i] EXCEPT !.consumption = consumption]],
                   [i \in Firms |->
                       [firms[i] EXCEPT !.production = production[i]]])))
    /\ UNCHANGED unitFrame

UnitCreditCapitals == {-3000, -2, 0, 1000}
UnitInterestRates == {5, 20}

\* government.current_interest_rate = interest_rate;
\* market.clear_credit_market(firms, government) on startup firms with the
\* given capitals
CallClearCreditMarket(capitals, interest_rate) ==
    \E credit \in {ClearCreditMarket(
                       [i \in Firms |->
                           [NewFirm("startup") EXCEPT !.capital = capitals[i]]])} :
       /\ NoCallYet
       /\ Record(LET args == [capitals |-> capitals,
                              interest_rate |-> interest_rate]
                 IN  IF credit.raised
                     THEN RaisedLeaving("MarketMechanism.clear_credit_market",
                                        args, "AttributeError", credit.firms)
                     ELSE Returned("MarketMechanism.clear_credit_market",
                                   args, credit.firms))
       /\ UNCHANGED unitFrame

UnitHouseholdWealths == {-125, 0, 50, 52, 1000}
\* observation[2], in and out of [0,1]
UnitObservedUnrest == {-50, 0, 40, 100, 300}

\* h = HouseholdAgent(id, social_class, config) with h.wealth set;
\* h.act(observation): the action returned and the household it leaves
CallHouseholdAct(social_class, wealth, obs_unrest) ==
    \E h \in {[NewHousehold(social_class) EXCEPT !.wealth = wealth]} :
       /\ NoCallYet
       /\ Record(Returned("HouseholdAgent.act",
                    [social_class |-> social_class, wealth |-> wealth,
                     obs_unrest |-> obs_unrest],
                    [action |-> HouseholdAction(h, obs_unrest),
                     household |-> HouseholdAct(h, obs_unrest)]))
       /\ UNCHANGED unitFrame

UnitNext ==
    \/ NoCallYet /\ \E social_class \in SocialClasses,
          wealth \in UnitHouseholdWealths, obs_unrest \in UnitObservedUnrest :
          CallHouseholdAct(social_class, wealth, obs_unrest)
    \/ NoCallYet /\ \E capitals \in [Firms -> UnitCreditCapitals],
          interest_rate \in UnitInterestRates :
          CallClearCreditMarket(capitals, interest_rate)
    \/ NoCallYet /\ \E members \in SUBSET Households,
          desired_labor \in UnitLaborDemands :
          CallClearLaborMarket(members, desired_labor)
    \/ NoCallYet /\ \E consumption \in UnitConsumptions,
          production \in [Firms -> UnitProductions] :
          CallClearGoodsMarket(consumption, production)
    \/ NoCallYet /\ \E w \in [Households -> ShareWealths], S \in SUBSET Households,
          top_percentile \in Percentiles :
          CallWealthShare(w, S, top_percentile)
    \/ NoCallYet /\ \E w \in [Households -> UnitWealths], S \in SUBSET Households :
          CallCalculateGini(w, S)
    \/ NoCallYet /\ \E i \in Households, consumption \in UnitConsumptions,
          inflation \in RewardInputs, unemployment \in RewardInputs,
          local_exposure \in RewardInputs :
          CallHouseholdComputeReward(i, consumption, inflation, unemployment,
                                     local_exposure)
    \/ NoCallYet /\ \E consumption \in UnitConsumptions, inflation \in RewardInputs,
          unemployment_risk \in RewardInputs, unrest_exposure \in RewardInputs :
          CallHouseholdReward(consumption, inflation, unemployment_risk,
                              unrest_exposure)
    \/ NoCallYet /\ \E gdp_growth \in RewardInputs, inflation \in RewardInputs,
          unemployment \in RewardInputs, unrest \in RewardInputs,
          inequality \in RewardInputs :
          CallGovernmentReward(gdp_growth, inflation, unemployment, unrest,
                               inequality)
    \/ NoCallYet /\ \E g \in AllGraphs, unrest \in [Households -> UnrestValues],
          noise \in [Households -> UnitNoiseDraws] :
          CallSpreadInfluence(g, unrest, noise)
    \/ NoCallYet /\ \E a \in Archetypes, capital \in UnitCapitals, demand \in UnitDemands,
          wage \in UnitWages, inflation \in UnitInflations :
          CallFirmStep(a, capital, demand, wage, inflation)

UnitSpec == Init /\ [][UnitNext]_vars

(***************************************************************************)
(* Properties.                                                             *)
(***************************************************************************)
\* the six macro aggregates _update_macros recomputes
MacroFields(e) ==
    <<e.gdp, e.inflation, e.unemployment, e.gini_coeff, e.avg_unrest,
      e.gdp_growth>>

\* C1: when a caller's step passes its termination check (the macro
\* aggregates of the tick are recomputed by then), it returns, with
\* terminated = TRUE and regime = "collapsed" exactly if (avg_unrest > 0.7
\* and unemployment > 0.15) or gdp < 1e-3 holds of the recomputed state;
\* otherwise terminated = FALSE and the regime field keeps its value.
C1_CollapseIff ==
    [][\A c \in Callers :
          (pc[c] = "s_finish" /\ pc'[c] # "s_finish") =>
             LET collapse == \/ econ.avg_unrest > 70 /\ econ.unemployment > 15
                             \/ econ.gdp < 1
             IN  /\ ret'[c].status = "returned"
                 /\ ret'[c].terminated = collapse
                 /\ econ'.regime = IF collapse THEN "collapsed" ELSE econ.regime
                 /\ MacroFields(econ') = MacroFields(econ)]_vars

\* a step has returned terminated through the unrest/unemployment branch
C1_Witness ==
    /\ ret[ApiCaller].status = "returned"
    /\ ret[ApiCaller].terminated
    /\ econ.regime = "collapsed"
    /\ econ.avg_unrest > 70 /\ econ.unemployment > 15 /\ econ.gdp >= 1

\* C2 (as claimed): once a step has observed avg_unrest > 0.7 and
\* unemployment > 0.15 and set regime = "collapsed", no later step before a
\* reset changes any macro aggregate of that episode's state.
C2_NoUpdateAfterCollapse ==
    [][(/\ econ.regime = "collapsed"
        /\ econ.avg_unrest > 70 /\ econ.unemployment > 15
        /\ timestep' # 0)
          => MacroFields(econ') = MacroFields(econ)]_vars

\* C3: within an episode the regime only moves from "stable" to "collapsed":
\* a step that takes regime away from "collapsed" is a reset, which installs
\* the initial state of a new episode.
C3_RegimeMonotone ==
    [][/\ econ'.regime \in {"stable", "collapsed"}
       /\ (econ.regime = "collapsed" /\ econ'.regime # "collapsed")
             => (timestep' = 0 /\ econ' = ResetEconomicState)]_vars

\* a later step of a collapsed episode has returned without collapsing again
C3_Witness ==
    /\ econ.regime = "collapsed"
    /\ ret[ApiCaller].status = "returned"
    /\ ~ret[ApiCaller].terminated

\* a bankrupt firm with nothing planned, hired or produced
Quiet(f) ==
    ~f.alive /\ f.employees = 0 /\ f.production = 0 /\ f.desired_labor = 0

\* C4: bankruptcy is irreversible.  No step sets alive back to TRUE; a
\* bankrupt firm has no employees and no production; the firm-decision phase
\* of every tick that follows the bankruptcy leaves it with desired_labor 0,
\* and from then on it stays that way through every phase of every tick
\* (shocks, labor/goods/credit clearing, produce, settlement) and reset.
C4_BankruptcyIrreversible ==
    [][\A i \in Firms :
          /\ ~firms[i].alive => ~firms'[i].alive
          /\ ~firms'[i].alive =>
                (firms'[i].employees = 0 /\ firms'[i].production = 0)
          /\ (/\ ~firms[i].alive
              /\ pc[ApiCaller] = "s_plan" /\ pc'[ApiCaller] = "s_markets")
                => Quiet(firms'[i])
          /\ Quiet(firms[i]) => Quiet(firms'[i])]_vars

\* a tick that began with a bankrupt firm has run to its end
C4_Witness ==
    /\ \E i \in Firms : Quiet(firms[i])
    /\ ret[ApiCaller].status = "returned"
    /\ nsteps >= 2

\* C5 (as claimed): inflation, unemployment, gini_coeff, avg_unrest and
\* top1_wealth_share lie in [0,1] in every reachable state.
C5_RatesInUnitInterval ==
    \A x \in {econ.inflation, econ.unemployment, econ.gini_coeff,
              econ.avg_unrest, econ.top1_wealth_share} :
        0 <= x /\ x <= Scale

\* C6 (as claimed): no step call ever raises.
C6_StepNeverRaises == \A c \in Callers : ret[c].status # "raised"

\* C7 (as claimed): right after a reset (timestep = 0) every firm is as
\* constructed for its archetype, every household as constructed for its
\* class, and the economic state has its initial values.
C7_ResetReinitializes ==
    timestep = 0 =>
        /\ \A i \in Firms : firms[i] = NewFirm(firms[i].archetype)
        /\ \A i \in Households :
              households[i] = NewHousehold(households[i].social_class)
        /\ econ = ResetEconomicState

\* C8 (as claimed): at most one loop thread is executing env.step.
C8_OneTickAtATime == Cardinality({t \in Threads : InStep(t)}) <= 1

\* C9 (as claimed): the values get_metrics returns are those of the state
\* published at the last tick boundary.
C9_MetricsAtBoundary ==
    metrics # << >> => metrics[1] = MetricsOf(published)

\* a loop thread that has been started and has not ended
Live(t) == pc[t] \notin {"unborn", "done", "dead"}

\* C10: cancellation is cooperative and effective.  A loop thread enters a
\* new tick only from its boundary check and only with the running flag set
\* (so with the flag cleared it finishes the tick in progress and starts no
\* further env.step); and a live thread eventually ends once the flag is
\* cleared, unless start() sets the flag again.
C10_CooperativeStop ==
    /\ [][\A t \in Threads :
             (~InStep(t) /\ pc[t] # "call" /\ pc'[t] = "call")
                => (pc[t] = "check" /\ running)]_vars
    /\ [][\A t \in Threads :
             (~InStep(t) /\ InStep(t)') => pc[t] = "call"]_vars
    /\ \A t \in Threads : (Live(t) /\ ~running) ~> (~Live(t) \/ running)

\* the flag is cleared while a thread is inside a tick
C10_Witness == ~running /\ \E t \in Threads : InStep(t)

\* what one application of a shock adds to econ.unemployment
UnemploymentBump(shock) ==
    CASE shock.type = "pandemic" -> 5 * shock.severity
      [] shock.type = "financial_crash" -> 40 * shock.severity
      [] shock.type = "climate_catastrophe" -> 10 * shock.severity
      [] OTHER -> 0

\* what one application of a shock adds to econ.inflation
InflationBump(shock) ==
    CASE shock.type = "supply_chain_collapse" -> 50 * shock.severity
      [] shock.type = "climate_catastrophe" -> 20 * shock.severity
      [] OTHER -> 0

\* C11: shock lifecycle.  add_shock appends a shock of duration 10, or 1000
\* for "permanent".  One maybe_trigger call applies every active shock
\* exactly once (unemployment and inflation move by the sum of one bump per
\* shock), leaves the shocks that had more than one tick left, in order and
\* with one tick less, drops the others, and anything it adds is a freshly
\* triggered shock with 9 ticks left.  So between calls every active shock
\* has a remaining duration of at least 1, and a shock is applied on exactly
\* `duration` consecutive calls.
C11_ShockLifecycle ==
    /\ [][(nsteps' = nsteps /\ Len(active_shocks') = Len(active_shocks) + 1) =>
              LET shock == active_shocks'[Len(active_shocks')]
              IN  /\ SubSeq(active_shocks', 1, Len(active_shocks)) = active_shocks
                  /\ shock.duration =
                        IF shock.type = "permanent" THEN 1000 ELSE 10]_vars
    /\ [][nsteps' = nsteps + 1 =>
              LET Lasting(shock) == shock.duration > 1
                  kept == SelectSeq(active_shocks, Lasting)
                  n == Len(kept)
                  m == Len(active_shocks')
                  fresh == SubSeq(active_shocks', n + 1, m)
                  applied == active_shocks \o fresh
              IN  /\ m >= n
                  /\ \A k \in 1..n :
                        active_shocks'[k] =
                           [kept[k] EXCEPT !.duration = kept[k].duration - 1]
                  /\ \A k \in 1..(m - n) :
                        fresh[k].duration = 9 /\ fresh[k].severity = 50
                  /\ econ'.unemployment = econ.unemployment
                        + SumOver([k \in 1..Len(applied) |->
                                     UnemploymentBump(applied[k])],
                                  1..Len(applied))
                  /\ econ'.inflation = econ.inflation
                        + SumOver([k \in 1..Len(applied) |->
                                     InflationBump(applied[k])],
                                  1..Len(applied))]_vars
    /\ [](\A k \in 1..Len(active_shocks) : active_shocks[k].duration >= 1)

\* a pandemic injected before the first call has been applied on ten calls
\* and was dropped by the tenth
C11_Witness ==
    /\ nsteps = 10
    /\ active_shocks = << >>
    /\ econ.unemployment = 10 * 5 * 50

\* C12: a financial_crash of severity 0.5 applied to an alive firm with
\* capital 1000 leaves it with capital -3000, and the tick's settlement
\* (the market phase of the same step, which ends with post_market_step)
\* leaves that firm with alive = false.
C12_CrashBankruptsAtSettlement ==
    /\ [][\A c \in Callers, i \in Firms :
             (/\ pc[c] \in {"idle", "call"} /\ pc'[c] = "s_plan"
              /\ firms[i].alive /\ firms[i].capital = 1000
              /\ Len(active_shocks) = 1
              /\ active_shocks[1].type = "financial_crash"
              /\ active_shocks[1].severity = 50)
             => firms'[i].capital = -3000]_vars
    /\ [][\A c \in Callers, i \in Firms :
             (/\ pc[c] = "s_markets" /\ pc'[c] # "s_markets"
              /\ firms[i].alive /\ firms[i].capital = -3000)
             => ~firms'[i].alive]_vars

\* C13: the labor market of a step, with S households and total desired
\* labor D, employs min(S, D): exactly that many households end the market
\* phase with employed = true, each of them with its wealth raised by the
\* wage, every other household has employed = false and its wealth
\* unchanged, and the unemployment rate handed on is 1 - min(S, D) / S.
C13_LaborMarketMatching ==
    [][\A c \in Callers :
          (pc[c] = "s_markets" /\ pc'[c] # "s_markets") =>
             LET S == NumHouseholds
                 D == SumOver([i \in Firms |-> firms[i].desired_labor], Firms)
                 employed == Min(S, D)
                 wage == LaborWage(D, S)
             IN  /\ Cardinality({i \in Households : households'[i].employed})
                       = employed
                 /\ \A i \in Households :
                       households'[i].wealth =
                          households[i].wealth
                          + (IF households'[i].employed THEN wage ELSE 0)
                 /\ pc'[c] = "s_macros" =>
                       loc'[c].unemployment = Scale - (Scale * employed) \div S]_vars

\* C14: FirmAgent.step of an alive firm computes labor_required as
\* max(demand, 100) / productivity and desired_labor as
\* min(labor_required, floor(capital / max(wage, 1))); for a startup
\* (productivity 0.8) with capital 1000, demand 100, wage 50 and inflation 0
\* that is labor_required = 125 and desired_labor = 20.
C14_LaborDemand ==
    LET r == ret[ApiCaller]
    IN  (r.status = "returned" /\ r.fn = "FirmAgent.step") =>
           LET labor_required ==
                   Trunc(Scale * Max(r.args.demand, MinDemand),
                         InitialProductivity(r.args.archetype))
           IN  /\ r.value.labor_required = labor_required
               /\ r.value.desired_labor =
                     Min(labor_required,
                         Trunc(r.args.capital, Max(r.args.wage, 1)))
               /\ r.args = [archetype |-> "startup", capital |-> 1000,
                            demand |-> 100, wage |-> 50, inflation |-> 0]
                     => /\ r.value.labor_required = 125
                        /\ r.value.desired_labor = 20

\* C15: for any graph, any unrest assignment with values in [0,1] and any
\* noise draw, every value spread_influence returns lies in [0,1], and the
\* value of a node without neighbors is returned unchanged.
C15_DiffusionBounds ==
    LET r == ret[ApiCaller]
    IN  (r.status = "returned" /\ r.fn = "SocialGraph.spread_influence") =>
           \A i \in Households :
              /\ r.value[i] >= 0 /\ r.value[i] <= Scale
              /\ Neighbors(r.args.graph, i) = {} =>
                    r.value[i] = r.args.unrest[i]

\* a pass over a graph with an isolated node, and a pass where the noise
\* pushes a connected node to the upper bound
C15_Witness ==
    LET r == ret[ApiCaller]
    IN  /\ r.status = "returned" /\ r.fn = "SocialGraph.spread_influence"
        /\ \/ /\ Neighbors(r.args.graph, 1) = {}
              /\ r.args.unrest[1] = 50 /\ r.args.noise[1] = 80
              /\ r.value[1] = 50
           \/ /\ Neighbors(r.args.graph, 1) # {}
              /\ r.args.unrest[1] = 50 /\ r.args.noise[1] = 80
              /\ r.value[1] = Scale

\* C16: social diffusion is computed from a single snapshot.  The unrest
\* the step writes to the households after the diffusion is, for the noise
\* drawn, what the pass yields from the households' values before the pass
\* (the unrest each household's act() has just set), and it is the same
\* for every order in which the nodes are processed.
C16_SnapshotDiffusion ==
    [][\A c \in Callers :
          (pc[c] = "s_plan" /\ pc'[c] = "s_markets") =>
             LET household_states ==
                    [j \in Households |->
                        HouseholdAct(households[j], econ'.avg_unrest).unrest]
             IN  \E noise \in [Households -> SocialNoiseDraws] :
                 \A order \in Permutations(Households) :
                 \A i \in Households :
                    households'[i].unrest =
                       SpreadPass(graph, household_states, noise, order,
                                  << >>)[i]]_vars

\* in the second tick the diffusion has run on joined households with
\* positive unrest and left them with different values
C16_Witness ==
    /\ pc[ApiCaller] = "s_markets"
    /\ timestep = 2
    /\ graph = {{1, 2}}
    /\ households[1].unrest > 0
    /\ households[2].unrest > households[1].unrest

\* C17: the reward a step returns is the government reward of the tick's
\* gdp growth, inflation, unemployment and gini coefficient and of the mean
\* of the households' current unrest, so that positive household unrest
\* enters the reward as a penalty.
C17_RewardUsesHouseholdUnrest ==
    [][\A c \in Callers :
          (pc[c] = "s_finish" /\ pc'[c] # "s_finish") =>
             LET mean_unrest ==
                    SumOver([i \in Households |-> households[i].unrest],
                            Households) \div NumHouseholds
             IN  ret'[c].reward =
                    government_reward(GdpGrowth(econ, prev_gdp),
                                      econ.inflation, econ.unemployment,
                                      mean_unrest, econ.gini_coeff)]_vars

\* C18: HouseholdAgent.compute_reward returns normally, for any household,
\* economic state and exposure, a scalar in [-5, 5]: the shared household
\* reward of the household's consumption, the state's inflation and
\* unemployment, and the exposure.
C18_HouseholdRewardReturns ==
    LET r == ret[ApiCaller]
    IN  (r.status # "none" /\ r.fn = "HouseholdAgent.compute_reward") =>
           /\ r.status = "returned"
           /\ r.value >= -500 /\ r.value <= 500
           /\ r.value = household_reward(r.args.consumption, r.args.inflation,
                                         r.args.unemployment,
                                         r.args.local_exposure)

\* C19: the shared reward functions return, for every input, in or out of
\* the nominal domain, a value in [-5, 5]; the government reward is the
\* weighted sum of the clipped inputs, less 2.0 exactly when the clipped
\* unrest is above 0.85 and the clipped inequality above 0.6, clipped.
C19_RewardsBounded ==
    LET r == ret[ApiCaller]
    IN  /\ (r.status # "none" /\ r.fn = "RewardFunctions.household_reward") =>
              r.status = "returned" /\ r.value >= -500 /\ r.value <= 500
        /\ (r.status # "none" /\ r.fn = "RewardFunctions.government_reward") =>
              LET g == Clip(r.args.gdp_growth, -25, 25)
                  i == Clip(r.args.inflation, 0, Scale)
                  u == Clip(r.args.unemployment, 0, Scale)
                  x == Clip(r.args.unrest, 0, Scale)
                  q == Clip(r.args.inequality, 0, Scale)
                  sum == g - Mul(80, i) - Mul(120, u) - Mul(200, Mul(x, x)) - q
              IN  /\ r.status = "returned"
                  /\ r.value >= -500 /\ r.value <= 500
                  /\ (x > 85 /\ q > 60) => r.value = Clip(sum - 200, -500, 500)
                  /\ ~(x > 85 /\ q > 60) => r.value = Clip(sum, -500, 500)

\* a government reward with every input above its range: the extra penalty
\* applies and the result is held at the lower bound
C19_Witness ==
    LET r == ret[ApiCaller]
    IN  /\ r.status = "returned"
        /\ r.fn = "RewardFunctions.government_reward"
        /\ r.args = [gdp_growth |-> 150, inflation |-> 150,
                     unemployment |-> 150, unrest |-> 150, inequality |-> 150]
        /\ r.value = -500

\* C20: calculate_gini returns 0 for an empty, an all-zero and a uniform
\* distribution, and a value in [0,1] for every distribution, negative
\* entries and a zero total included.
C20_GiniBounded ==
    LET r == ret[ApiCaller]
    IN  (r.status # "none" /\ r.fn = "InequalityMetrics.calculate_gini") =>
           LET w == r.args.incomes
               S == r.args.members
           IN  /\ r.status = "returned"
               /\ r.value >= 0 /\ r.value <= Scale
               /\ (\A i, j \in S : w[i] = w[j]) => r.value = 0

\* a distribution with a negative entry and a zero total
C20_Witness ==
    LET r == ret[ApiCaller]
    IN  /\ r.status = "returned"
        /\ r.fn = "InequalityMetrics.calculate_gini"
        /\ r.args.members = Households
        /\ r.args.incomes[1] = -3
        /\ SumOver(r.args.incomes, Households) = 0
        /\ r.value = Scale

\* C21: for a fixed distribution the wealth share of the top percentile p
\* does not decrease when p grows (negative entries included), and the
\* share of an empty or all-zero distribution is 0.
C21_WealthShareMonotone ==
    LET r == ret[ApiCaller]
    IN  (r.status # "none"
            /\ r.fn = "InequalityMetrics.calculate_wealth_share") =>
           LET w == r.args.wealths
               S == r.args.members
           IN  /\ r.status = "returned"
               /\ \A p \in Percentiles :
                     r.args.top_percentile <= p => r.value <= WealthShare(w, S, p)
               /\ (\A i \in S : w[i] = 0) => r.value = 0

\* the richest household of a distribution with a negative entry and a
\* positive total holds more than the total: the share is held at 1
C21_Witness ==
    LET r == ret[ApiCaller]
    IN  /\ r.status = "returned"
        /\ r.fn = "InequalityMetrics.calculate_wealth_share"
        /\ r.args.members = Households
        /\ r.args.wealths[1] = 5
        /\ \E i \in Households : r.args.wealths[i] < 0
        /\ SumOver(r.args.wealths, Households) > 0
        /\ r.args.top_percentile = 50
        /\ r.value = Scale

\* C22: the zero cases of market clearing are guarded: clear_labor_market
\* with no household or with zero total labor demand, and clear_goods_market
\* with zero total supply or zero total demand, return normally.
C22_ZeroCasesGuarded ==
    LET r == ret[ApiCaller]
    IN  /\ (/\ r.status # "none"
            /\ r.fn = "MarketMechanism.clear_labor_market"
            /\ (r.args.households = {} \/ r.args.desired_labor = 0))
              => r.status = "returned"
        /\ (/\ r.status # "none"
            /\ r.fn = "MarketMechanism.clear_goods_market"
            /\ \/ r.args.consumption = 0
               \/ \A i \in Firms : r.args.production[i] = 0)
              => /\ r.status = "returned"
                 /\ (\A i \in Firms : r.args.production[i] = 0) =>
                       \A i \in Firms : r.value[i].revenue = 0

\* C23: clear_credit_market leaves every firm with capital >= 0 as it
\* was; to a firm with capital < 0 it adds the granted credit and it raises
\* the firm's debt balance (0 for a new firm) by
\* granted_credit * (1 + interest_rate).
C23_CreditAddsDebt ==
    LET r == ret[ApiCaller]
    IN  (r.status # "none" /\ r.fn = "MarketMechanism.clear_credit_market") =>
           /\ r.status = "returned"
           /\ \A i \in Firms :
                 LET before == [NewFirm("startup") EXCEPT
                                   !.capital = r.args.capitals[i]]
                     granted == GrantedCredit(before.capital)
                 IN  /\ before.capital >= 0 => r.value[i] = before
                     /\ before.capital < 0 =>
                           /\ r.value[i].capital = before.capital + granted
                           /\ "debt" \in DOMAIN r.value[i]
                           /\ r.value[i].debt =
                                 MulDiv(granted, Scale + r.args.interest_rate,
                                        Scale)

\* C28: for a firm with capital < 0 the leverage cap is max_leverage * 1,
\* so the credit added to its capital is min(|capital|, max_leverage), and
\* a firm whose deficit exceeds max_leverage still has negative capital
\* after credit clearing.
C28_LeverageCapConstant ==
    LET r == ret[ApiCaller]
    IN  (r.status # "none" /\ r.fn = "MarketMechanism.clear_credit_market") =>
           \A i \in Firms :
              LET capital == r.args.capitals[i]
                  after == IF r.status = "raised" THEN r.left[i] ELSE r.value[i]
              IN  (capital < 0 /\ \A j \in 1..(i - 1) : r.args.capitals[j] >= 0)
                     => /\ after.capital =
                              capital + Min(Abs(capital), MaxLeverage \div Scale)
                        /\ Abs(capital) > MaxLeverage \div Scale
                              => after.capital < 0

\* a firm 3000 in deficit has been granted 3 and is left 2997 in deficit
C28_Witness ==
    LET r == ret[ApiCaller]
    IN  /\ r.status = "raised"
        /\ r.fn = "MarketMechanism.clear_credit_market"
        /\ r.args.capitals[1] = -3000
        /\ r.left[1].capital = -2997

C25_ActSplitsWealth ==
    LET r == ret[ApiCaller]
    IN  (r.status # "none" /\ r.fn = "HouseholdAgent.act") =>
           LET action == r.value.action
               h == r.value.household
               wealth == r.args.wealth
           IN  /\ r.status = "returned"
               /\ \A k \in 1..3 : action[k] >= 0 /\ action[k] <= Scale
               /\ action[1] + action[2] = Scale
               /\ h.consumption = Mul(wealth, action[1])
               /\ h.savings = Mul(wealth, action[2])
               /\ h.consumption + h.savings \in (wealth - 1)..wealth
               /\ h.unrest = action[3]
               /\ h.wealth = h.savings

\* a poor household holding 50 consumes 30 and is left with 20
C25_Witness ==
    LET r == ret[ApiCaller]
    IN  /\ r.status = "returned"
        /\ r.fn = "HouseholdAgent.act"
        /\ r.args = [social_class |-> "poor", wealth |-> 50, obs_unrest |-> 40]
        /\ r.value.household.consumption = 30
        /\ r.value.household.wealth = 20
        /\ r.value.household.unrest = 20

\* C26: after FirmAgent.step every firm's desired_labor is >= 0, also for
\* an alive firm whose capital a shock of the same tick has driven
\* negative, and the unemployment rate clear_labor_market returns lies in
\* [0,1].
C26_LaborDemandNonNegative ==
    /\ \A i \in Firms : firms[i].desired_labor >= 0
    /\ \A c \in Callers :
          loc[c].unemployment >= 0 /\ loc[c].unemployment <= Scale

\* C27: after the labor market of a step the firms' employees add up to
\* at most the number of households marked employed, each firm employs at
\* most its desired_labor, and the wages credited to the households are at
\* least the wage bills charged to the firms.
C27_EmployeesWithinEmployed ==
    [][\A c \in Callers :
          (pc[c] = "s_markets" /\ pc'[c] # "s_markets") =>
             /\ SumOver([i \in Firms |-> firms'[i].employees], Firms)
                   <= Cardinality({i \in Households : households'[i].employed})
             /\ \A i \in Firms : firms'[i].employees <= firms'[i].desired_labor
             /\ SumOver([i \in Firms |-> firms'[i].wage_bill], Firms)
                   <= SumOver([i \in Households |->
                                 households'[i].wealth - households[i].wealth],
                              Households)]_vars

\* C29: what the shock phase of a tick did to the households' unrest and
\* consumption is overwritten by act in the same tick.  The unrest the
\* diffusion starts from is each household's protest propensity times the
\* avg_unrest the previous tick recorded, and the consumption that goes to
\* the goods market is a fraction of the household's wealth: neither depends
\* on the unrest or consumption the household had after the shocks.  The
\* avg_unrest recorded at the end of the tick is the mean of the unrest the
\* diffusion left.
C29_ShocksOverwrittenByAct ==
    /\ [][\A c \in Callers :
             (pc[c] = "s_plan" /\ pc'[c] = "s_markets") =>
                LET household_states ==
                       [j \in Households |->
                          Clip(Mul(PropensityToProtest(households[j].social_class),
                                   econ.avg_unrest), 0, Scale)]
                    consumption_pct ==
                       [j \in Households |->
                          Clip(50 + Mul(20, Scale - PropensityToProtest(
                                                households[j].social_class)),
                               0, Scale)]
                IN  /\ \E noise \in [Households -> SocialNoiseDraws] :
                          \A i \in Households :
                             households'[i].unrest =
                                SpreadInfluence(graph, household_states, noise)[i]
                    /\ \A i \in Households :
                          households'[i].consumption =
                             Mul(households[i].wealth, consumption_pct[i])]_vars
    /\ [][\A c \in Callers :
             (pc[c] = "s_macros" /\ pc'[c] = "s_finish") =>
                econ'.avg_unrest =
                   SumOver([i \in Households |-> households[i].unrest],
                           Households) \div NumHouseholds]_vars

\* a political coup was applied in the shock phase of the first tick (it
\* sets every household's unrest to 1) and after act and the diffusion a
\* household has unrest 0
C29_Witness ==
    /\ pc[ApiCaller] = "s_markets"
    /\ timestep = 1
    /\ Len(active_shocks) = 1
    /\ active_shocks[1].type = "political_coup"
    /\ active_shocks[1].duration = 9
    /\ households[1].unrest = 0

\* C30: a shock injected through Simulator.add_shock while the run-loop
\* thread is inside maybe_trigger is never lost: whenever the thread rebinds
\* self.active_shocks, every shock of the list that has time left is in the
\* list that replaces it.
C30_InjectedShockNotLost ==
    [][\A t \in Threads :
          (pc[t] = "mt_rebind" /\ pc'[t] # "mt_rebind") =>
              \A k \in 1..Len(active_shocks) :
                  active_shocks[k].duration > 0 =>
                      \E j \in 1..Len(active_shocks') :
                          active_shocks'[j] = active_shocks[k]]_vars


====
